---- MODULE Spec2Model ----
(***************************************************************************)
(* Model of open_notebook/domain/models.py: the ModelManager, its cache of *)
(* constructed model instances keyed by f"{model_id}:{str(kwargs)}", the   *)
(* resolution of default models, and the persisted records it reads.       *)
(*                                                                         *)
(* Python strings that take part in the cache key are sequences of         *)
(* one-character strings, so that str(kwargs) is computed, not assumed.    *)
(* Optional[str] is an option: <<>> is None, <<s>> is the string s.        *)
(***************************************************************************)
EXTENDS Naturals, Sequences, FiniteSets

VARIABLES
    db,               \* persisted "model" table: a function id -> Model record
    db_defaults,      \* persisted open_notebook:default_models record
    _default_models,  \* ModelManager._default_models (in memory)
    _model_cache,     \* ModelManager._model_cache: cache key -> instance
    ctor_calls,       \* number of constructor invocations so far
    last,             \* the last manager operation: its arguments and what it did
    env_steps,        \* number of external changes to the persisted data so far
    _instance,        \* ModelManager._instance and its _initialized attribute
    callers           \* the get_model calls that concurrent callers are inside

vars == <<db, db_defaults, _default_models, _model_cache, ctor_calls, last, env_steps,
          _instance, callers>>

\* ------------------------------------------------------------------ bounds
MaxCtor == 2          \* constructor invocations explored
MaxEnv == 1           \* external changes of the persisted data explored

\* ------------------------------------------------------------------ values
None == <<>>
Some(s) == <<s>>

\* Python truthiness of an Optional[str]: None and "" are falsy.
Truthy(opt) == opt # None /\ opt[1] # <<>>

\* Python's `a or b` on Optional[str].
PyOr(a, b) == IF Truthy(a) THEN a ELSE b

EmptyId == <<>>
M1 == <<"m", ":", "1">>
M2 == <<"m", ":", "2">>
M3 == <<"m", ":", "3">>
\* The ids that have had a row at some time, and the ids callers pass.
StoredIds == {M1, M2}
ModelIds == {EmptyId, M1, M2, M3}

\* Keyword-argument values: the int 1 and the str '1'.
IntOne == [type |-> "int", text |-> <<"1">>]
StrOne == [type |-> "str", text |-> <<"1">>]

\* **kwargs: a dict in call order, the names distinct. The dicts callers pass:
\* {}, {a: 1}, {a: '1'}, {b: 1}, {a: 1, b: 1} and {b: 1, a: 1}.
Arg(name, value) == [name |-> <<name>>, value |-> value]

Kwargs ==
    {<<>>, <<Arg("a", IntOne)>>, <<Arg("a", StrOne)>>, <<Arg("b", IntOne)>>,
     <<Arg("a", IntOne), Arg("b", IntOne)>>, <<Arg("b", IntOne), Arg("a", IntOne)>>}

\* dict.__eq__: the same items, in any order.
DictEq(kw1, kw2) ==
    {kw1[i] : i \in 1..Len(kw1)} = {kw2[i] : i \in 1..Len(kw2)}

\* repr() of a str (no quote characters occur in the modelled strings).
ReprStr(s) == <<"'">> \o s \o <<"'">>

ReprValueUnquoted(v) == v.text

\* repr() of a keyword-argument value.
ReprValue(v) == IF v.type = "str" THEN ReprStr(v.text) ELSE v.text

\* str() of a dict: "{'a': 1, 'b': '1'}", the items in insertion order.
RECURSIVE StrItems(_)
StrItems(kw) ==
    IF kw = <<>> THEN <<>>
    ELSE LET item == ReprStr(kw[1].name) \o <<":", " ">> \o ReprValue(kw[1].value)
         IN  IF Len(kw) = 1 THEN item
             ELSE item \o <<",", " ">> \o StrItems(Tail(kw))

StrKwargs(kw) == <<"{">> \o StrItems(kw) \o <<"}">>

\* cache_key = f"{model_id}:{str(kwargs)}"
CacheKey(model_id, kw) == model_id \o <<":">> \o StrKwargs(kw)

\* ------------------------------------------------------------------ registry
LanguageModel == "LanguageModel"
EmbeddingModel == "EmbeddingModel"
SpeechToTextModel == "SpeechToTextModel"
TextToSpeechModel == "TextToSpeechModel"
ModelKinds == {LanguageModel, EmbeddingModel, SpeechToTextModel, TextToSpeechModel}

\* MODEL_CLASS_MAP: type -> the providers that have a constructor for it.
MODEL_CLASS_MAP ==
    [language |-> {"openai"},
     embedding |-> {"openai"},
     speech_to_text |-> {"openai"},
     text_to_speech |-> {"openai", "elevenlabs"}]

\* The capability interface the class registered under a type implements.
KindOfType(type) ==
    CASE type = "language" -> LanguageModel
      [] type = "embedding" -> EmbeddingModel
      [] type = "speech_to_text" -> SpeechToTextModel
      [] type = "text_to_speech" -> TextToSpeechModel
      [] OTHER -> "object"

\* ------------------------------------------------------------------ records
\* class Model(ObjectModel): name, provider, type
Model == [name : {"gpt", "whisper"},
          provider : {"openai", "elevenlabs"},
          type : {"language", "speech_to_text", "vision", ""}]

\* The records an external writer saves.
SavedRecords ==
    {[name |-> "gpt", provider |-> "openai", type |-> "language"],
     [name |-> "whisper", provider |-> "openai", type |-> "speech_to_text"],
     [name |-> "gpt", provider |-> "elevenlabs", type |-> "language"],
     [name |-> "gpt", provider |-> "openai", type |-> "vision"],
     [name |-> "gpt", provider |-> "openai", type |-> ""]}

\* Model.get(model_id): the record, or nothing.
ModelGet(model_id) == IF model_id \in DOMAIN db THEN Some(db[model_id]) ELSE None

\* class DefaultModels(RecordModel)
DefaultFields ==
    {"default_chat_model", "default_transformation_model", "large_context_model",
     "default_text_to_speech_model", "default_speech_to_text_model",
     "default_embedding_model", "default_tools_model"}

DefaultValues == {None, Some(EmptyId), Some(M1), Some(M2)}

\* DefaultModels(): the stored configuration record.
LoadDefaults == db_defaults

Purposes ==
    {"chat", "transformation", "tools", "embedding", "text_to_speech",
     "speech_to_text", "large_context", "vision"}

\* ------------------------------------------------------------------ get_model
\* A constructed model instance: `serial` is its identity (the n-th object the
\* constructors built), model_name and kwargs are what the constructor was given,
\* type and provider name its class MODEL_CLASS_MAP[type][provider]; model_id is
\* kept for reference only (the constructor does not receive it).
NoInstance ==
    [serial |-> 0, model_id |-> EmptyId, kwargs |-> <<>>, model_name |-> "",
     type |-> "", provider |-> ""]

\* {}: a cache with no entries.
EmptyCache == [k \in {} |-> NoInstance]

\* isinstance(instance, cls): the capability interface of the instance's class.
KindOf(instance) == KindOfType(instance.type)

AssertAlwaysPasses(model_id) == TRUE

\* assert model_id, "Model ID cannot be empty"
PassesAssert(model_id) == model_id # EmptyId

\* not (not model.type or model.type not in MODEL_CLASS_MAP)
TypeRecognized(model) == model.type # "" /\ model.type \in DOMAIN MODEL_CLASS_MAP

ProviderAlwaysRegistered(model) == TRUE

\* model.provider in MODEL_CLASS_MAP[model.type]
ProviderRegistered(model) == model.provider \in MODEL_CLASS_MAP[model.type]

ConstructKeepsRecord(model_id, model, kw) ==
    [serial |-> ctor_calls + 1, model_id |-> model_id, kwargs |-> kw,
     model_name |-> model.name, type |-> "Model", provider |-> model.provider]

\* model_class(model_name=model.name, **kwargs)
Construct(model_id, model, kw) ==
    [serial |-> ctor_calls + 1, model_id |-> model_id, kwargs |-> kw,
     model_name |-> model.name, type |-> model.type, provider |-> model.provider]

StoreIfAbsent(cache, key, instance) ==
    [k \in DOMAIN cache \cup {key} |-> IF k \in DOMAIN cache THEN cache[k] ELSE instance]

\* self._model_cache[cache_key] = model_instance
Store(cache, key, instance) ==
    [k \in DOMAIN cache \cup {key} |-> IF k = key THEN instance ELSE cache[k]]

Outcome(outcome, ret, hit, fetched, constructed, cache) ==
    [outcome |-> outcome, ret |-> ret, hit |-> hit, fetched |-> fetched,
     constructed |-> constructed, cache |-> cache]

Failure(outcome, fetched) ==
    Outcome(outcome, NoInstance, FALSE, fetched, FALSE, _model_cache)

GetModelHitRevalidating(key) ==
    LET cached_model == _model_cache[key]
        model == ModelGet(cached_model.model_id)
    IN  IF model = None THEN Failure("NotFound", TRUE)
        ELSE IF ~TypeRecognized(model[1]) THEN Failure("InvalidType", TRUE)
        ELSE Outcome("ok", cached_model, TRUE, TRUE, FALSE, _model_cache)

\* The cache-hit path of get_model.
GetModelHit(key) ==
    LET cached_model == _model_cache[key]
    IN  IF KindOf(cached_model) \notin ModelKinds
        THEN Failure("TypeError", FALSE)
        ELSE Outcome("ok", cached_model, TRUE, FALSE, FALSE, _model_cache)

GetModelMissNoFoundCheck(model_id, kw, key) ==
    IF ~PassesAssert(model_id) THEN Failure("AssertionError", FALSE)
    ELSE LET model == ModelGet(model_id)
         IN  IF model = None THEN Failure("AttributeError", TRUE)
             ELSE IF ~TypeRecognized(model[1]) THEN Failure("InvalidType", TRUE)
             ELSE IF ~ProviderRegistered(model[1])
                  THEN Failure("IncompatibleProvider", TRUE)
             ELSE LET model_instance == Construct(model_id, model[1], kw)
                  IN  Outcome("ok", model_instance, FALSE, TRUE, TRUE,
                              Store(_model_cache, key, model_instance))

GetModelMissStoresEarly(model_id, kw, key) ==
    IF ~PassesAssert(model_id) THEN Failure("AssertionError", FALSE)
    ELSE LET model == ModelGet(model_id)
         IN  IF model = None THEN Failure("NotFound", TRUE)
             ELSE IF ~TypeRecognized(model[1]) THEN Failure("InvalidType", TRUE)
             ELSE LET model_instance == Construct(model_id, model[1], kw)
                  IN  IF ~ProviderRegistered(model[1])
                      THEN Outcome("IncompatibleProvider", NoInstance, FALSE, TRUE,
                                   FALSE, Store(_model_cache, key, model_instance))
                      ELSE Outcome("ok", model_instance, FALSE, TRUE, TRUE,
                                   Store(_model_cache, key, model_instance))

GetModelMissFetchFirst(model_id, kw, key) ==
    LET model == ModelGet(model_id)
    IN  IF model = None THEN Failure("NotFound", TRUE)
        ELSE IF ~PassesAssert(model_id) THEN Failure("AssertionError", TRUE)
        ELSE IF ~TypeRecognized(model[1]) THEN Failure("InvalidType", TRUE)
        ELSE IF ~ProviderRegistered(model[1])
             THEN Failure("IncompatibleProvider", TRUE)
        ELSE LET model_instance == Construct(model_id, model[1], kw)
             IN  Outcome("ok", model_instance, FALSE, TRUE, TRUE,
                         Store(_model_cache, key, model_instance))

\* The cache-miss path of get_model.
GetModelMiss(model_id, kw, key) ==
    IF ~PassesAssert(model_id) THEN Failure("AssertionError", FALSE)
    ELSE LET model == ModelGet(model_id)
         IN  IF model = None THEN Failure("NotFound", TRUE)
             ELSE IF ~TypeRecognized(model[1]) THEN Failure("InvalidType", TRUE)
             ELSE IF ~ProviderRegistered(model[1])
                  THEN Failure("IncompatibleProvider", TRUE)
             ELSE LET model_instance == Construct(model_id, model[1], kw)
                  IN  Outcome("ok", model_instance, FALSE, TRUE, TRUE,
                              Store(_model_cache, key, model_instance))

GetModelNoCache(model_id, kw) == GetModelMiss(model_id, kw, CacheKey(model_id, kw))

\* ModelManager.get_model(model_id, **kwargs)
GetModelResult(model_id, kw) ==
    LET cache_key == CacheKey(model_id, kw)
    IN  IF cache_key \in DOMAIN _model_cache
        THEN GetModelHit(cache_key)
        ELSE GetModelMiss(model_id, kw, cache_key)

\* What an operation leaves in `last`: the operation and its arguments, whether
\* it called get_model and with which id, the row that id had at the time, what
\* the call did, whether it changed the cache, the cache that a clear_cache
\* emptied (dropped) and, for a call that follows a clear_cache, the instance
\* that clear_cache dropped from the call's cache key (after_clear).
Done(op, purpose, called, model_id, kw, r) ==
    [op |-> op, purpose |-> purpose, called |-> called, model_id |-> model_id,
     kwargs |-> kw, outcome |-> r.outcome, ret |-> r.ret, hit |-> r.hit,
     fetched |-> r.fetched, constructed |-> r.constructed,
     record |-> IF called THEN ModelGet(model_id) ELSE None,
     mutated |-> r.cache # _model_cache,
     after_clear |->
        IF called /\ last.op = "clear_cache"
              /\ CacheKey(model_id, kw) \in DOMAIN last.dropped
        THEN last.dropped[CacheKey(model_id, kw)] ELSE NoInstance,
     dropped |-> IF op = "clear_cache" THEN _model_cache ELSE EmptyCache]

\* The effect of a call on the manager; constructions beyond MaxCtor are not explored.
Apply(r) ==
    /\ r.constructed => ctor_calls < MaxCtor
    /\ _model_cache' = r.cache
    /\ ctor_calls' = IF r.constructed THEN ctor_calls + 1 ELSE ctor_calls

GetModel(model_id, kw) ==
    LET r == GetModelResult(model_id, kw)
    IN  /\ Apply(r)
        /\ last' = Done("get_model", "", TRUE, model_id, kw, r)
        /\ UNCHANGED <<db, db_defaults, _default_models, env_steps, _instance, callers>>

\* ------------------------------------------------------------------ defaults
\* ModelManager.refresh_defaults()
RefreshDefaults ==
    /\ _default_models' = LoadDefaults
    /\ last' = Done("refresh_defaults", "", FALSE, EmptyId, <<>>, Failure("ok", FALSE))
    /\ UNCHANGED <<db, db_defaults, _model_cache, ctor_calls, env_steps, _instance, callers>>

\* The model_id chosen by get_default_model's if/elif chain.
ResolveNoFallback(defaults, model_type) ==
    CASE model_type = "chat" -> defaults.default_chat_model
      [] model_type = "transformation" -> defaults.default_transformation_model
      [] model_type = "tools" -> defaults.default_tools_model
      [] model_type = "embedding" -> defaults.default_embedding_model
      [] model_type = "text_to_speech" -> defaults.default_text_to_speech_model
      [] model_type = "speech_to_text" -> defaults.default_speech_to_text_model
      [] model_type = "large_context" -> defaults.large_context_model
      [] OTHER -> None

ResolveAllFallback(defaults, model_type) ==
    IF model_type \in {"chat", "transformation", "tools", "embedding",
                       "text_to_speech", "speech_to_text", "large_context"}
    THEN PyOr(ResolveNoFallback(defaults, model_type), defaults.default_chat_model)
    ELSE None

ResolveDefault(defaults, model_type) ==
    CASE model_type = "chat" -> defaults.default_chat_model
      [] model_type = "transformation" ->
            PyOr(defaults.default_transformation_model, defaults.default_chat_model)
      [] model_type = "tools" ->
            PyOr(defaults.default_tools_model, defaults.default_chat_model)
      [] model_type = "embedding" -> defaults.default_embedding_model
      [] model_type = "text_to_speech" -> defaults.default_text_to_speech_model
      [] model_type = "speech_to_text" -> defaults.default_speech_to_text_model
      [] model_type = "large_context" -> defaults.large_context_model
      [] OTHER -> None

GetDefaultModelResultNoCache(model_type, kw) ==
    LET model_id == ResolveDefault(_default_models, model_type)
    IN  IF ~Truthy(model_id)
        THEN [called |-> FALSE, model_id |-> EmptyId,
              r |-> Failure("NoDefaultConfigured", FALSE)]
        ELSE [called |-> TRUE, model_id |-> model_id[1],
              r |-> GetModelNoCache(model_id[1], kw)]

GetDefaultModelResultFromStorage(model_type, kw) ==
    LET model_id == ResolveDefault(LoadDefaults, model_type)
    IN  IF ~Truthy(model_id)
        THEN [called |-> FALSE, model_id |-> EmptyId,
              r |-> Failure("NoDefaultConfigured", FALSE)]
        ELSE [called |-> TRUE, model_id |-> model_id[1],
              r |-> GetModelResult(model_id[1], kw)]

\* ModelManager.get_default_model(model_type, **kwargs), as a result and the
\* model_id it resolved.
GetDefaultModelResult(model_type, kw) ==
    LET model_id == ResolveDefault(_default_models, model_type)
    IN  IF ~Truthy(model_id)
        THEN [called |-> FALSE, model_id |-> EmptyId,
              r |-> Failure("NoDefaultConfigured", FALSE)]
        ELSE [called |-> TRUE, model_id |-> model_id[1],
              r |-> GetModelResult(model_id[1], kw)]

GetDefaultModel(model_type, kw) ==
    LET d == GetDefaultModelResult(model_type, kw)
    IN  /\ Apply(d.r)
        /\ last' = Done("get_default_model", model_type, d.called, d.model_id, kw, d.r)
        /\ UNCHANGED <<db, db_defaults, _default_models, env_steps, _instance, callers>>

\* The three properties: the purpose each looks up and the class it insists on.
Accessors ==
    {[op |-> "speech_to_text", purpose |-> "speech_to_text", kind |-> SpeechToTextModel],
     [op |-> "text_to_speech", purpose |-> "text_to_speech", kind |-> TextToSpeechModel],
     [op |-> "embedding_model", purpose |-> "embedding", kind |-> EmbeddingModel]}

AccessorUnchecked(a) ==
    LET d == GetDefaultModelResult(a.purpose, <<>>)
    IN  /\ Apply(d.r)
        /\ last' = Done(a.op, a.purpose, d.called, d.model_id, <<>>, d.r)
        /\ UNCHANGED <<db, db_defaults, _default_models, env_steps, _instance, callers>>

\* ModelManager.speech_to_text / text_to_speech / embedding_model
Accessor(a) ==
    LET d == GetDefaultModelResult(a.purpose, <<>>)
        r == IF d.r.outcome = "ok" /\ KindOf(d.r.ret) # a.kind
             THEN [d.r EXCEPT !.outcome = "TypeMismatch", !.ret = NoInstance]
             ELSE d.r
    IN  /\ Apply(r)
        /\ last' = Done(a.op, a.purpose, d.called, d.model_id, <<>>, r)
        /\ UNCHANGED <<db, db_defaults, _default_models, env_steps, _instance, callers>>

ClearedKeepingFirst(cache) ==
    IF DOMAIN cache = {} THEN cache
    ELSE LET keep == CHOOSE k \in DOMAIN cache : TRUE
         IN  [k \in {keep} |-> cache[k]]

\* self._model_cache.clear()
Cleared(cache) == EmptyCache

ClearCacheAndRefresh ==
    /\ _model_cache' = Cleared(_model_cache)
    /\ _default_models' = LoadDefaults
    /\ last' = Done("clear_cache", "", FALSE, EmptyId, <<>>,
                    Outcome("ok", NoInstance, FALSE, FALSE, FALSE, _model_cache'))
    /\ UNCHANGED <<db, db_defaults, ctor_calls, env_steps, _instance, callers>>

\* ModelManager.clear_cache()
ClearCache ==
    /\ _model_cache' = Cleared(_model_cache)
    /\ last' = Done("clear_cache", "", FALSE, EmptyId, <<>>,
                    Outcome("ok", NoInstance, FALSE, FALSE, FALSE, _model_cache'))
    /\ UNCHANGED <<db, db_defaults, _default_models, ctor_calls, env_steps, _instance, callers>>

\* ------------------------------------------------------------------ storage
\* The persisted rows are created, updated and deleted outside the manager.
SaveRecord(model_id, model) ==
    /\ env_steps < MaxEnv
    /\ ModelGet(model_id) # Some(model)
    /\ db' = [k \in DOMAIN db \cup {model_id} |-> IF k = model_id THEN model ELSE db[k]]
    /\ env_steps' = env_steps + 1
    /\ UNCHANGED <<db_defaults, _default_models, _model_cache, ctor_calls, last, _instance, callers>>

DeleteRecord(model_id) ==
    /\ env_steps < MaxEnv
    /\ model_id \in DOMAIN db
    /\ db' = [k \in DOMAIN db \ {model_id} |-> db[k]]
    /\ env_steps' = env_steps + 1
    /\ UNCHANGED <<db_defaults, _default_models, _model_cache, ctor_calls, last, _instance, callers>>

SaveDefaults(field, value) ==
    /\ env_steps < MaxEnv
    /\ db_defaults[field] # value
    /\ db_defaults' = [db_defaults EXCEPT ![field] = value]
    /\ env_steps' = env_steps + 1
    /\ UNCHANGED <<db, _default_models, _model_cache, ctor_calls, last, _instance, callers>>

\* ------------------------------------------------------------------ system
\* ModelManager._instance before the first ModelManager() and after it.
NoManager == [id |-> 0, _initialized |-> FALSE]
TheManager == [id |-> 1, _initialized |-> TRUE]

\* A caller that is not inside get_model.
Callers == {"A", "B"}
IdleCaller ==
    [pc |-> "idle", model_id |-> EmptyId, kwargs |-> <<>>, model |-> None,
     model_instance |-> NoInstance, outcome |-> "", ret |-> NoInstance,
     hit |-> FALSE, overwrote |-> FALSE]
NoCallers == [t \in Callers |-> IdleCaller]

\* After `model_manager = ModelManager()`: the language model m:1 is stored and is
\* the chat default, the speech-to-text model m:2 is stored and is the
\* speech-to-text default; the cache is empty and the defaults are loaded.
InitialDefaults ==
    [f \in DefaultFields |->
        CASE f = "default_chat_model" -> Some(M1)
          [] f = "default_speech_to_text_model" -> Some(M2)
          [] OTHER -> None]

InitialModels ==
    [k \in StoredIds |->
        IF k = M1 THEN [name |-> "gpt", provider |-> "openai", type |-> "language"]
        ELSE [name |-> "whisper", provider |-> "openai", type |-> "speech_to_text"]]

Init ==
    /\ db = InitialModels
    /\ db_defaults = InitialDefaults
    /\ _default_models = InitialDefaults
    /\ _model_cache = EmptyCache
    /\ ctor_calls = 0
    /\ last = [op |-> "init", purpose |-> "", called |-> FALSE, model_id |-> EmptyId,
               kwargs |-> <<>>, outcome |-> "ok", ret |-> NoInstance, hit |-> FALSE,
               fetched |-> FALSE, constructed |-> FALSE, record |-> None,
               mutated |-> FALSE,
               after_clear |-> NoInstance, dropped |-> EmptyCache]
    /\ env_steps = 0
    /\ _instance = TheManager
    /\ callers = NoCallers

\* Spec explores every operation, each call without keyword arguments.
NoKwargs == {kw \in Kwargs : Len(kw) = 0}

Next ==
    \/ \E model_id \in ModelIds, kw \in NoKwargs : GetModel(model_id, kw)
    \/ \E model_type \in Purposes, kw \in NoKwargs : GetDefaultModel(model_type, kw)
    \/ \E a \in Accessors : Accessor(a)
    \/ RefreshDefaults
    \/ ClearCache
    \/ \E model_id \in StoredIds, model \in SavedRecords : SaveRecord(model_id, model)
    \/ \E model_id \in StoredIds : DeleteRecord(model_id)
    \/ \E field \in DefaultFields, value \in DefaultValues : SaveDefaults(field, value)

Spec == Init /\ [][Next]_vars

\* SpecKeys explores get_model under every keyword-argument dict, with
\* clear_cache, while the stored rows stay as they are.
NextKeys ==
    \/ \E model_id \in ModelIds, kw \in Kwargs : GetModel(model_id, kw)
    \/ ClearCache

SpecKeys == Init /\ [][NextKeys]_vars

\* ------------------------------------------------------------------ concurrency
\* get_model takes no lock. Each caller runs its statements in order and the
\* callers' statements interleave: the cache lookup, the fetch of the row, the
\* checks of the row, the constructor call and the store are separate steps.
Caller(t) == callers[t]
CallerKey(t) == CacheKey(Caller(t).model_id, Caller(t).kwargs)

Finish(c, outcome) == [c EXCEPT !.pc = "done", !.outcome = outcome]

\* A caller enters get_model(model_id, **kwargs).
Call(t, model_id, kw) ==
    /\ Caller(t).pc = "idle"
    /\ callers' = [callers EXCEPT ![t] =
                      [IdleCaller EXCEPT !.pc = "check", !.model_id = model_id,
                                         !.kwargs = kw]]
    /\ UNCHANGED <<db, db_defaults, _default_models, _model_cache, ctor_calls, last,
                   env_steps, _instance>>

\* if cache_key in self._model_cache: ... return cached_model
CheckCache(t) ==
    /\ Caller(t).pc = "check"
    /\ callers' = [callers EXCEPT ![t] =
          IF CallerKey(t) \in DOMAIN _model_cache
          THEN IF KindOf(_model_cache[CallerKey(t)]) \notin ModelKinds
               THEN Finish(Caller(t), "TypeError")
               ELSE [Finish(Caller(t), "ok") EXCEPT !.hit = TRUE,
                                            !.ret = _model_cache[CallerKey(t)]]
          ELSE [Caller(t) EXCEPT !.pc = "fetch"]]
    /\ UNCHANGED <<db, db_defaults, _default_models, _model_cache, ctor_calls, last,
                   env_steps, _instance>>

\* assert model_id; model = Model.get(model_id)
Fetch(t) ==
    /\ Caller(t).pc = "fetch"
    /\ callers' = [callers EXCEPT ![t] =
          IF ~PassesAssert(Caller(t).model_id) THEN Finish(Caller(t), "AssertionError")
          ELSE [Caller(t) EXCEPT !.pc = "validate", !.model = ModelGet(Caller(t).model_id)]]
    /\ UNCHANGED <<db, db_defaults, _default_models, _model_cache, ctor_calls, last,
                   env_steps, _instance>>

\* the three checks of the fetched row
Validate(t) ==
    /\ Caller(t).pc = "validate"
    /\ callers' = [callers EXCEPT ![t] =
          IF Caller(t).model = None THEN Finish(Caller(t), "NotFound")
          ELSE IF ~TypeRecognized(Caller(t).model[1]) THEN Finish(Caller(t), "InvalidType")
          ELSE IF ~ProviderRegistered(Caller(t).model[1])
               THEN Finish(Caller(t), "IncompatibleProvider")
          ELSE [Caller(t) EXCEPT !.pc = "construct"]]
    /\ UNCHANGED <<db, db_defaults, _default_models, _model_cache, ctor_calls, last,
                   env_steps, _instance>>

\* model_instance = model_class(model_name=model.name, **kwargs)
ConstructStep(t) ==
    /\ Caller(t).pc = "construct"
    /\ ctor_calls < MaxCtor
    /\ callers' = [callers EXCEPT ![t] =
          [Caller(t) EXCEPT !.pc = "store",
                    !.model_instance =
                        Construct(Caller(t).model_id, Caller(t).model[1],
                                  Caller(t).kwargs)]]
    /\ ctor_calls' = ctor_calls + 1
    /\ UNCHANGED <<db, db_defaults, _default_models, _model_cache, last, env_steps,
                   _instance>>

\* self._model_cache[cache_key] = model_instance; return model_instance
\* (overwrote: the key already had an entry when this caller stored its own)
StoreStep(t) ==
    /\ Caller(t).pc = "store"
    /\ _model_cache' = Store(_model_cache, CallerKey(t), Caller(t).model_instance)
    /\ callers' = [callers EXCEPT ![t] =
          [Finish(Caller(t), "ok") EXCEPT !.ret = Caller(t).model_instance,
                                  !.overwrote = CallerKey(t) \in DOMAIN _model_cache]]
    /\ UNCHANGED <<db, db_defaults, _default_models, ctor_calls, last, env_steps,
                   _instance>>

\* The caller leaves get_model and drops what it was given.
Return(t) ==
    /\ Caller(t).pc = "done"
    /\ callers' = [callers EXCEPT ![t] = IdleCaller]
    /\ UNCHANGED <<db, db_defaults, _default_models, _model_cache, ctor_calls, last,
                   env_steps, _instance>>

\* SpecRace explores two callers inside get_model at the same time.
NextRace ==
    \/ \E t \in Callers, model_id \in ModelIds, kw \in NoKwargs : Call(t, model_id, kw)
    \/ \E t \in Callers : CheckCache(t)
    \/ \E t \in Callers : Fetch(t)
    \/ \E t \in Callers : Validate(t)
    \/ \E t \in Callers : ConstructStep(t)
    \/ \E t \in Callers : StoreStep(t)
    \/ \E t \in Callers : Return(t)

SpecRace == Init /\ [][NextRace]_vars

\* ------------------------------------------------------------------ lifecycle
\* self._default_models = None
NotLoaded == [f \in {} |-> None]

NeedsInitAlways == TRUE

\* not hasattr(self, "_initialized")
NeedsInit == ~_instance._initialized

\* ModelManager(): __new__ allocates the instance only when there is none, and
\* __init__ sets the instance up only when it has not been set up. In `last`, hit
\* says that the instance existed and fetched that the defaults were loaded.
NewManager ==
    LET existed == _instance.id # 0
        fresh == NeedsInit
    IN  /\ _instance' = [id |-> IF existed THEN _instance.id ELSE 1,
                         _initialized |-> TRUE]
        /\ _model_cache' = IF fresh THEN EmptyCache ELSE _model_cache
        /\ _default_models' = IF fresh THEN LoadDefaults ELSE _default_models
        /\ last' = Done("ModelManager", "", FALSE, EmptyId, <<>>,
                        Outcome("ok", NoInstance, existed, fresh, FALSE, _model_cache'))
        /\ UNCHANGED <<db, db_defaults, ctor_calls, env_steps, callers>>

\* ModelManager.defaults: loads only when nothing is loaded. In `last`, fetched
\* says that the property loaded the defaults.
ReadDefaults ==
    LET missing == _default_models = NotLoaded
        loaded == IF missing THEN LoadDefaults ELSE _default_models
    IN  /\ _default_models' = loaded
        /\ last' = Done("defaults", "", FALSE, EmptyId, <<>>,
                        Outcome(IF loaded = NotLoaded THEN "RuntimeError" ELSE "ok",
                                NoInstance, FALSE, missing, FALSE, _model_cache))
        /\ UNCHANGED <<db, db_defaults, _model_cache, ctor_calls, env_steps,
                       _instance, callers>>

\* Before the first ModelManager(): no instance, nothing loaded.
InitLife ==
    /\ db = InitialModels
    /\ db_defaults = InitialDefaults
    /\ _default_models = NotLoaded
    /\ _model_cache = EmptyCache
    /\ ctor_calls = 0
    /\ last = [op |-> "init", purpose |-> "", called |-> FALSE, model_id |-> EmptyId,
               kwargs |-> <<>>, outcome |-> "ok", ret |-> NoInstance, hit |-> FALSE,
               fetched |-> FALSE, constructed |-> FALSE, record |-> None,
               mutated |-> FALSE,
               after_clear |-> NoInstance, dropped |-> EmptyCache]
    /\ env_steps = 0
    /\ _instance = NoManager
    /\ callers = NoCallers

\* SpecLife explores the manager from before its construction; its methods are
\* called on the constructed instance only.
NextLife ==
    \/ NewManager
    \/ _instance._initialized /\ ReadDefaults
    \/ _instance._initialized /\ RefreshDefaults
    \/ \E model_type \in Purposes, kw \in NoKwargs :
          _instance._initialized /\ GetDefaultModel(model_type, kw)
    \/ _instance._initialized /\ ClearCache
    \/ \E field \in DefaultFields, value \in DefaultValues : SaveDefaults(field, value)

SpecLife == InitLife /\ [][NextLife]_vars

\* ------------------------------------------------------------------ properties
\* The cache key of the call recorded in `last`.
LastKey == CacheKey(last.model_id, last.kwargs)

GetOps == {"get_model", "get_default_model"}
AccessorOps == {a.op : a \in Accessors}

\* The field of DefaultModels that holds a purpose's own default.
OwnField(purpose) ==
    CASE purpose = "chat" -> "default_chat_model"
      [] purpose = "transformation" -> "default_transformation_model"
      [] purpose = "tools" -> "default_tools_model"
      [] purpose = "embedding" -> "default_embedding_model"
      [] purpose = "text_to_speech" -> "default_text_to_speech_model"
      [] purpose = "speech_to_text" -> "default_speech_to_text_model"
      [] purpose = "large_context" -> "large_context_model"

Set(opt) == opt # None /\ opt[1] # EmptyId

\* C1: two get_model calls with the same id and equal parameter sets (equal as
\* dicts, whatever the order the arguments were written in) with no clear_cache
\* between them share one instance: the cache never holds two instances that
\* were constructed for the same id and equal parameters.
C1_EqualParamsShareInstance ==
    \A k1, k2 \in DOMAIN _model_cache :
        (/\ _model_cache[k1].model_id = _model_cache[k2].model_id
         /\ DictEq(_model_cache[k1].kwargs, _model_cache[k2].kwargs))
        => _model_cache[k1] = _model_cache[k2]

\* C2: for one model id, parameter sets that differ get different cache keys,
\* each key holds an instance of its own that was constructed with exactly the
\* parameters of that key, and a call never returns an instance that was
\* constructed for another id or another parameter set.
C2_DistinctParamsDistinctEntries ==
    /\ \A model_id \in ModelIds, kw1, kw2 \in Kwargs :
          ~DictEq(kw1, kw2) => CacheKey(model_id, kw1) # CacheKey(model_id, kw2)
    /\ \A model_id \in ModelIds, kw \in Kwargs :
          CacheKey(model_id, kw) \in DOMAIN _model_cache =>
             /\ _model_cache[CacheKey(model_id, kw)].model_id = model_id
             /\ DictEq(_model_cache[CacheKey(model_id, kw)].kwargs, kw)
    /\ \A k1, k2 \in DOMAIN _model_cache :
          k1 # k2 => _model_cache[k1].serial # _model_cache[k2].serial
    /\ (last.op = "get_model" /\ last.outcome = "ok") =>
          /\ last.ret.model_id = last.model_id
          /\ DictEq(last.ret.kwargs, last.kwargs)

\* Two parameter sets of one id are cached, and a later call got one of them back.
C2_Witness ==
    /\ last.op = "get_model" /\ last.hit
    /\ \E k \in DOMAIN _model_cache :
          /\ _model_cache[k].model_id = last.model_id
          /\ ~DictEq(_model_cache[k].kwargs, last.kwargs)

\* The record that a call fetched, or would have fetched, can be constructed:
\* it exists, its type is a registry key and its provider is registered there.
LastRecordValid ==
    /\ last.record # None
    /\ last.record[1].type \in DOMAIN MODEL_CLASS_MAP
    /\ last.record[1].provider \in MODEL_CLASS_MAP[last.record[1].type]

\* C3 as stated: the first get_model for a key after a clear_cache that dropped
\* that key is a miss that fetches the record, invokes the constructor again
\* and returns a new instance, in every case.
C3_Original ==
    (last.op \in GetOps /\ last.after_clear # NoInstance) =>
        /\ ~last.hit
        /\ last.fetched
        /\ last.outcome = "ok"
        /\ last.constructed
        /\ last.ret # last.after_clear

\* C3: the first get_model for a key after a clear_cache that dropped that key
\* is a miss that fetches the record again; with the record still valid it
\* invokes the constructor again (the new instance is the latest construction),
\* returns an instance that is not the one cached before the clear, and stores
\* it, so that the same call made again is a hit on the new instance; with the
\* record gone or no longer valid it fails and constructs nothing.
C3_ClearThenMiss ==
    (last.op \in GetOps /\ last.after_clear # NoInstance) =>
        /\ ~last.hit
        /\ last.fetched
        /\ LastRecordValid =>
              /\ last.outcome = "ok"
              /\ last.constructed
              /\ last.ret.serial = ctor_calls
              /\ last.ret.serial > last.after_clear.serial
              /\ last.ret # last.after_clear
              /\ GetModelResult(last.model_id, last.kwargs)
                    = Outcome("ok", last.ret, TRUE, FALSE, FALSE, _model_cache)
        /\ ~LastRecordValid =>
              /\ last.outcome \in {"NotFound", "InvalidType", "IncompatibleProvider"}
              /\ ~last.constructed /\ ~last.mutated

\* A key was cached, the cache was cleared, and the same call constructed anew.
C3_Witness ==
    /\ last.op = "get_model"
    /\ last.after_clear # NoInstance
    /\ last.constructed
    /\ last.ret.serial = last.after_clear.serial + 1

\* C4: for transformation and tools, get_default_model calls get_model with the
\* purpose's own default when that is set, with the chat default when its own
\* is unset or empty and the chat default is set, and fails with
\* NoDefaultConfigured without calling get_model when both are unset.
C4_FallbackToChat ==
    (last.op = "get_default_model" /\ last.purpose \in {"transformation", "tools"}) =>
        LET own == _default_models[OwnField(last.purpose)]
            chat == _default_models["default_chat_model"]
        IN  /\ Set(own) => (last.called /\ last.model_id = own[1])
            /\ (~Set(own) /\ Set(chat)) => (last.called /\ last.model_id = chat[1])
            /\ (~Set(own) /\ ~Set(chat)) =>
                  /\ ~last.called
                  /\ last.outcome = "NoDefaultConfigured"
                  /\ ~last.mutated

\* tools has no default of its own and resolved to the chat default.
C4_Witness ==
    /\ last.op = "get_default_model" /\ last.purpose = "tools"
    /\ ~Set(_default_models["default_tools_model"])
    /\ last.called /\ last.outcome = "ok"
    /\ Some(last.model_id) = _default_models["default_chat_model"]

\* C5: for chat, embedding, text_to_speech, speech_to_text and large_context,
\* get_default_model calls get_model with the purpose's own default and with
\* nothing else; with that default unset or empty, and for any purpose outside
\* the seven, it fails with NoDefaultConfigured whatever the other defaults
\* are, without calling get_model and without changing the cache.
C5_OwnDefaultOnly ==
    last.op = "get_default_model" =>
        /\ last.purpose \in {"chat", "embedding", "text_to_speech", "speech_to_text",
                             "large_context"} =>
              LET own == _default_models[OwnField(last.purpose)]
              IN  /\ Set(own) => (last.called /\ last.model_id = own[1])
                  /\ ~Set(own) =>
                        /\ ~last.called
                        /\ last.outcome = "NoDefaultConfigured"
                        /\ ~last.mutated
        /\ last.purpose \notin {"chat", "transformation", "tools", "embedding",
                                "text_to_speech", "speech_to_text", "large_context"} =>
              /\ ~last.called
              /\ last.outcome = "NoDefaultConfigured"
              /\ ~last.mutated

\* embedding has no default while the chat default is set, and the call failed.
C5_Witness ==
    /\ last.op = "get_default_model" /\ last.purpose = "embedding"
    /\ ~Set(_default_models["default_embedding_model"])
    /\ Set(_default_models["default_chat_model"])
    /\ last.outcome = "NoDefaultConfigured"

\* C6: get_model with an empty id fails with the assertion's error under every
\* parameter set and leaves the cache unchanged, in every reachable state; no
\* reachable cache holds an entry under the key of an empty-id call.
C6_EmptyIdRejected ==
    /\ \A kw \in Kwargs :
          /\ CacheKey(EmptyId, kw) \notin DOMAIN _model_cache
          /\ GetModelResult(EmptyId, kw) = Failure("AssertionError", FALSE)
    /\ (last.op = "get_model" /\ last.model_id = EmptyId) =>
          /\ last.outcome = "AssertionError"
          /\ ~last.mutated /\ ~last.fetched /\ ~last.constructed

\* An empty-id call with parameters failed while the cache held entries.
C6_Witness ==
    /\ last.op = "get_model" /\ last.model_id = EmptyId /\ last.kwargs # <<>>
    /\ last.outcome = "AssertionError"
    /\ DOMAIN _model_cache # {}

\* C7 as stated: get_model for a non-empty id that has no record at the time of
\* the call fails with NotFound in every reachable state, also after the id was
\* resolved while a record existed, and constructs and caches nothing.
C7_Original ==
    (last.op = "get_model" /\ last.model_id # EmptyId /\ last.record = None) =>
        /\ last.outcome = "NotFound"
        /\ ~last.constructed /\ ~last.mutated

\* C7: get_model for a non-empty id that has no record at the time of the call
\* fails with NotFound and constructs and caches nothing, unless the key is
\* still cached from a call made while the record existed: then the call is a
\* hit that returns the cached instance without fetching.
C7_NotFoundUnlessCached ==
    (last.op = "get_model" /\ last.model_id # EmptyId /\ last.record = None) =>
        /\ ~last.constructed /\ ~last.mutated
        /\ IF last.hit
           THEN /\ last.outcome = "ok" /\ ~last.fetched
                /\ LastKey \in DOMAIN _model_cache
                /\ last.ret = _model_cache[LastKey]
           ELSE /\ last.outcome = "NotFound" /\ last.fetched
                /\ LastKey \notin DOMAIN _model_cache

\* An id whose record was deleted, and which is not cached, was not found.
C7_Witness ==
    /\ last.op = "get_model" /\ last.model_id \in StoredIds
    /\ last.record = None
    /\ last.outcome = "NotFound"

\* C8: when the record that get_model fetched has a type that is a registry key
\* and a provider with no constructor under it, the call fails with
\* IncompatibleProvider; when the type is empty or no registry key, it fails
\* with InvalidType. Either way no constructor runs, the key stays out of the
\* cache, and the same call fails the same way while the record stays as it is.
C8_InvalidRecordRejected ==
    (last.fetched /\ last.record # None /\ ~LastRecordValid) =>
        /\ last.outcome =
              IF last.record[1].type \in DOMAIN MODEL_CLASS_MAP
              THEN "IncompatibleProvider" ELSE "InvalidType"
        /\ ~last.constructed /\ ~last.mutated
        /\ LastKey \notin DOMAIN _model_cache
        /\ ModelGet(last.model_id) = last.record =>
              GetModelResult(last.model_id, last.kwargs) = Failure(last.outcome, TRUE)

\* A language record of a provider registered only for text-to-speech was refused.
C8_Witness ==
    /\ last.op = "get_model" /\ last.outcome = "IncompatibleProvider"
    /\ last.record # None /\ last.record[1].type = "language"

\* C9 as stated: an operation that fails leaves the cache exactly as it was.
C9_Original == last.outcome # "ok" => ~last.mutated

\* C9: a failing get_model or get_default_model leaves the cache exactly as it
\* was; a failing operation never replaces or removes an entry; the only failing
\* operation that adds one is an accessor that fails with TypeMismatch, which
\* leaves the instance that its get_default_model call constructed and cached.
C9_FailureLeavesCache ==
    [][last'.outcome # "ok" =>
          \/ _model_cache' = _model_cache
          \/ /\ last'.op \in AccessorOps
             /\ last'.outcome = "TypeMismatch"
             /\ CacheKey(last'.model_id, <<>>) \notin DOMAIN _model_cache
             /\ DOMAIN _model_cache' = DOMAIN _model_cache \cup {CacheKey(last'.model_id, <<>>)}
             /\ \A k \in DOMAIN _model_cache : _model_cache'[k] = _model_cache[k]]_vars

\* An accessor failed with TypeMismatch after its lookup cached a new instance.
C9_Witness ==
    /\ last.op \in AccessorOps
    /\ last.outcome = "TypeMismatch"
    /\ last.mutated /\ last.constructed

\* C10: every cache entry sits under the key of the id and parameters it was
\* constructed for; no step replaces or removes an entry except clear_cache,
\* and clear_cache removes every entry.
C10_EntriesPersistUntilClear ==
    [][/\ \A k \in DOMAIN _model_cache' :
             k = CacheKey(_model_cache'[k].model_id, _model_cache'[k].kwargs)
       /\ \/ \A k \in DOMAIN _model_cache :
                k \in DOMAIN _model_cache' /\ _model_cache'[k] = _model_cache[k]
          \/ /\ last'.op = "clear_cache"
             /\ last'.dropped = _model_cache
             /\ _model_cache' = EmptyCache]_vars

\* clear_cache emptied a cache of two entries.
C10_Witness ==
    /\ last.op = "clear_cache"
    /\ Cardinality(DOMAIN last.dropped) = 2
    /\ _model_cache = EmptyCache

\* C11: when two callers ran get_model concurrently for the same key and both
\* constructed an instance, they hold different instances; exactly one of the two
\* stores overwrote the other, the cache entry of the key is the instance of the
\* later store, and a sequential get_model for the key is a hit returning it.
Racing(t, u) ==
    /\ t # u
    /\ Caller(t).pc = "done" /\ Caller(u).pc = "done"
    /\ Caller(t).model_instance # NoInstance /\ Caller(u).model_instance # NoInstance
    /\ Caller(t).model_id = Caller(u).model_id
    /\ Caller(t).kwargs = Caller(u).kwargs

C11_RacingCallersLastWriteWins ==
    \A t \in Callers, u \in Callers :
        Racing(t, u) =>
            /\ Caller(t).ret # Caller(u).ret
            /\ Caller(t).ret.serial # Caller(u).ret.serial
            /\ Caller(t).overwrote # Caller(u).overwrote
            /\ CallerKey(u) \in DOMAIN _model_cache
            /\ Caller(u).overwrote =>
                  /\ _model_cache[CallerKey(u)] = Caller(u).ret
                  /\ GetModelResult(Caller(u).model_id, Caller(u).kwargs).hit
                  /\ GetModelResult(Caller(u).model_id, Caller(u).kwargs).ret
                        = Caller(u).ret

C11_Witness ==
    \E t \in Callers, u \in Callers :
        /\ Racing(t, u)
        /\ Caller(u).overwrote
        /\ ctor_calls = 2
        /\ _model_cache[CallerKey(u)] = Caller(u).ret
        /\ DOMAIN _model_cache = {CallerKey(u)}

\* C12: the manager is in the ready phase once its instance is set up and its
\* defaults are loaded. A ready manager stays ready and stays the same instance;
\* ModelManager() on a ready manager leaves the cache and the in-memory defaults
\* as they are; reading `defaults` on a ready manager loads nothing; and the
\* manager becomes ready only by ModelManager(), which loads the stored defaults.
Phase ==
    IF _instance._initialized /\ _default_models # NotLoaded
    THEN "ready" ELSE "uninitialized"

C12_InitializedOnce ==
    [][/\ Phase = "ready" => Phase' = "ready" /\ _instance' = _instance
       /\ Phase = "ready" /\ last'.op = "ModelManager" =>
             /\ _model_cache' = _model_cache
             /\ _default_models' = _default_models
       /\ Phase = "ready" /\ last'.op = "defaults" =>
             /\ _default_models' = _default_models
             /\ ~last'.fetched
       /\ Phase # "ready" /\ Phase' = "ready" =>
             /\ last'.op = "ModelManager"
             /\ _default_models' = db_defaults]_vars

C12_Witness ==
    /\ last.op = "ModelManager"
    /\ last.hit
    /\ ~last.fetched
    /\ Phase = "ready"
    /\ _model_cache # EmptyCache
    /\ _default_models # db_defaults

\* The default a purpose stands for under a defaults record: its own when set,
\* for transformation and tools the chat default otherwise.
ExpectedDefault(defaults, purpose) ==
    IF purpose \notin {"chat", "transformation", "tools", "embedding",
                       "text_to_speech", "speech_to_text", "large_context"}
    THEN None
    ELSE LET own == defaults[OwnField(purpose)]
             chat == defaults["default_chat_model"]
         IN  IF Set(own) THEN own
             ELSE IF purpose \in {"transformation", "tools"} /\ Set(chat) THEN chat
             ELSE None

\* C13: the in-memory defaults change only in a refresh_defaults, which makes
\* them the stored defaults and leaves the cache as it is; a get_default_model
\* resolves its purpose against the in-memory defaults, whatever the stored
\* defaults have become since they were loaded.
C13_DefaultsChangeOnlyByRefresh ==
    [][/\ _default_models' # _default_models =>
             /\ last'.op = "refresh_defaults"
             /\ _default_models' = db_defaults
       /\ last'.op = "refresh_defaults" =>
             /\ _model_cache' = _model_cache
             /\ env_steps' = env_steps => _default_models' = db_defaults
       /\ last'.op = "get_default_model" /\ env_steps' = env_steps =>
             LET e == ExpectedDefault(_default_models, last'.purpose)
             IN  /\ last'.called = Set(e)
                 /\ last'.called => last'.model_id = e[1]]_vars

\* The stored chat default was changed, refresh_defaults loaded it, and a
\* get_default_model for chat resolved to the new value.
C13_Witness ==
    /\ last.op = "get_default_model" /\ last.purpose = "chat"
    /\ last.called
    /\ Some(last.model_id) = _default_models["default_chat_model"]
    /\ _default_models["default_chat_model"] # InitialDefaults["default_chat_model"]
    /\ _model_cache # EmptyCache

\* C14: every cached object is of one of the four recognized kinds, so no
\* operation ever fails the kind check of the hit path; and the instance a miss
\* returns is the entry it stored, which a hit on the same key accepts.
C14_CacheHoldsRecognizedKinds ==
    /\ \A k \in DOMAIN _model_cache :
          KindOfType(_model_cache[k].type) \in ModelKinds
    /\ last.outcome # "TypeError"
    /\ (last.op \in GetOps /\ last.outcome = "ok" /\ ~last.hit) =>
          /\ KindOfType(last.ret.type) \in ModelKinds
          /\ LastKey \in DOMAIN _model_cache
          /\ _model_cache[LastKey] = last.ret
          /\ GetModelHit(LastKey).outcome = "ok"
          /\ GetModelHit(LastKey).ret = last.ret

\* A miss constructed a speech-to-text instance while a language instance was
\* cached already.
C14_Witness ==
    /\ last.op = "get_model" /\ last.outcome = "ok" /\ last.constructed
    /\ KindOf(last.ret) = SpeechToTextModel
    /\ \E k \in DOMAIN _model_cache : KindOf(_model_cache[k]) = LanguageModel

\* The first of the four checks that an id and the row fetched for it fail.
FirstFailure(model_id, record) ==
    IF model_id = EmptyId THEN "AssertionError"
    ELSE IF record = None THEN "NotFound"
    ELSE IF record[1].type = "" \/ record[1].type \notin DOMAIN MODEL_CLASS_MAP
         THEN "InvalidType"
    ELSE IF record[1].provider \notin MODEL_CLASS_MAP[record[1].type]
         THEN "IncompatibleProvider"
    ELSE "ok"

\* C15: a get_model that misses reports the first check that fails, in the
\* order empty id, row absent, type unrecognized, provider not registered, and
\* then constructs nothing and leaves the cache; when all four pass it
\* constructs with the row's name and the caller's parameters and returns the
\* instance it stored under the cache key. This holds of every id and
\* parameter set whose key is not cached, in every reachable state.
C15_FirstFailureReported ==
    /\ \A model_id \in ModelIds, kw \in Kwargs :
          CacheKey(model_id, kw) \notin DOMAIN _model_cache =>
              LET r == GetModelResult(model_id, kw)
                  e == FirstFailure(model_id, ModelGet(model_id))
              IN  /\ r.outcome = e
                  /\ ~r.hit
                  /\ e # "ok" =>
                        /\ ~r.constructed
                        /\ r.ret = NoInstance
                        /\ r.cache = _model_cache
                  /\ e = "ok" =>
                        /\ r.constructed
                        /\ r.ret.model_name = db[model_id].name
                        /\ r.ret.kwargs = kw
                        /\ DOMAIN r.cache = DOMAIN _model_cache
                                               \cup {CacheKey(model_id, kw)}
                        /\ r.cache[CacheKey(model_id, kw)] = r.ret
    /\ (last.op = "get_model" /\ ~last.hit) =>
          /\ last.outcome = FirstFailure(last.model_id, last.record)
          /\ last.constructed = (last.outcome = "ok")
          /\ last.outcome = "ok" =>
                /\ last.ret.model_name = last.record[1].name
                /\ last.ret.kwargs = last.kwargs
                /\ _model_cache[LastKey] = last.ret

\* A miss found the row, rejected its type and constructed nothing, next to
\* an entry cached before.
C15_Witness ==
    /\ last.op = "get_model" /\ ~last.hit
    /\ last.outcome = "InvalidType"
    /\ last.record # None
    /\ last.fetched /\ ~last.constructed /\ ~last.mutated
    /\ _model_cache # EmptyCache

\* The purpose an accessor looks up and the kind it promises.
AccessorPurpose(op) ==
    CASE op = "speech_to_text" -> "speech_to_text"
      [] op = "text_to_speech" -> "text_to_speech"
      [] op = "embedding_model" -> "embedding"

AccessorKind(op) ==
    CASE op = "speech_to_text" -> SpeechToTextModel
      [] op = "text_to_speech" -> TextToSpeechModel
      [] op = "embedding_model" -> EmbeddingModel

\* C16: an accessor looks up the default of its own purpose with no
\* parameters; it returns the cached instance of that default when the
\* instance is of the accessor's kind and fails with TypeMismatch, returning
\* nothing, when the instance is of another kind; apart from that it fails
\* only as get_default_model fails.
C16_AccessorReturnsItsKind ==
    last.op \in {"speech_to_text", "text_to_speech", "embedding_model"} =>
        LET e == ExpectedDefault(_default_models, AccessorPurpose(last.op))
        IN  /\ last.purpose = AccessorPurpose(last.op)
            /\ last.kwargs = <<>>
            /\ last.called = Set(e)
            /\ last.called => last.model_id = e[1]
            /\ last.outcome \in {"ok", "TypeMismatch", "NoDefaultConfigured",
                                 "NotFound", "InvalidType", "IncompatibleProvider"}
            /\ last.outcome = "ok" =>
                  /\ KindOfType(last.ret.type) = AccessorKind(last.op)
                  /\ last.ret = _model_cache[CacheKey(e[1], <<>>)]
            /\ last.outcome = "TypeMismatch" =>
                  /\ last.ret = NoInstance
                  /\ CacheKey(e[1], <<>>) \in DOMAIN _model_cache
                  /\ KindOfType(_model_cache[CacheKey(e[1], <<>>)].type)
                        # AccessorKind(last.op)
            /\ (last.called /\ CacheKey(e[1], <<>>) \in DOMAIN _model_cache) =>
                  last.outcome \in {"ok", "TypeMismatch"}

\* The speech_to_text accessor returned the cached speech-to-text instance.
C16_Witness ==
    /\ last.op = "speech_to_text"
    /\ last.outcome = "ok" /\ last.hit
    /\ KindOf(last.ret) = SpeechToTextModel
    /\ last.ret = _model_cache[LastKey]

C18_HitIgnoresStoredRow ==
    /\ last.hit =>
          /\ ~last.fetched /\ ~last.constructed /\ ~last.mutated
          /\ last.outcome \in {"ok", "TypeMismatch"}
          /\ last.outcome = "ok" => last.ret = _model_cache[LastKey]
    /\ \A k \in DOMAIN _model_cache :
          LET r == GetModelResult(_model_cache[k].model_id, _model_cache[k].kwargs)
          IN  /\ r.outcome = "ok"
              /\ r.hit /\ ~r.fetched /\ ~r.constructed
              /\ r.ret = _model_cache[k]
              /\ r.cache = _model_cache

\* get_model hit an entry whose row, at the time of the call, a miss would
\* have rejected.
C18_Witness ==
    /\ last.op = "get_model" /\ last.hit /\ last.outcome = "ok"
    /\ FirstFailure(last.model_id, last.record) # "ok"
    /\ last.ret = _model_cache[LastKey]

\* C19: a get_model and a clear_cache leave the in-memory defaults, the
\* manager instance and its phase, and the stored data as they were, so every
\* purpose resolves to the same id after the call as before it.
C19_GetAndClearKeepDefaults ==
    [][(last'.op \in {"get_model", "clear_cache"} /\ env_steps' = env_steps) =>
          /\ _default_models' = _default_models
          /\ _instance' = _instance
          /\ Phase' = Phase
          /\ db' = db /\ db_defaults' = db_defaults
          /\ \A purpose \in Purposes :
                ResolveDefault(_default_models', purpose)
                   = ResolveDefault(_default_models, purpose)]_vars

\* clear_cache emptied a cache with an entry while the stored defaults
\* differed from the loaded ones, which stayed as loaded.
C19_Witness ==
    /\ last.op = "clear_cache"
    /\ last.dropped # EmptyCache
    /\ _model_cache = EmptyCache
    /\ _default_models = InitialDefaults
    /\ db_defaults # InitialDefaults
    /\ Phase = "ready"

====
